---- MODULE Spec2Model ----
(***************************************************************************)
(* Model of dipy/reconst/beltrami.py: the Iwasawa coordinate change        *)
(* (x_manifold, d_manifold) and the finite differences (forward_diff,      *)
(* backward_diff).                                                         *)
(*                                                                         *)
(* Numbers are exact rationals <<num, den>> (den > 0, lowest terms),       *)
(* extended by the three values numpy produces on a division by zero:      *)
(* <<1,0>> = +inf, <<-1,0>> = -inf, <<0,0>> = nan.  Rounding and signed    *)
(* zeros are not modelled.                                                 *)
(*                                                                         *)
(* An ndarray is a record [shape |-> <<n1,..,nk>>, data |-> f], f a        *)
(* function from the 0-based index tuples of the shape to the elements.    *)
(* A raised exception is a record [error |-> "<exception class>"].         *)
(*                                                                         *)
(* The file as stored spells two branches of each difference function      *)
(* "elif: dim == k:"; they are read here as "elif dim == k:".              *)
(***************************************************************************)
EXTENDS Integers, Sequences, FiniteSets, TLC

VARIABLES tensorField, maskArr, manifoldField, tensorBack, tensorDirect,
          field, field2, coefA, coefB, axis, voxelSize,
          fwd, bwd, fwd2, fwdComb

vars == <<tensorField, maskArr, manifoldField, tensorBack, tensorDirect,
          field, field2, coefA, coefB, axis, voxelSize,
          fwd, bwd, fwd2, fwdComb>>

manifoldVars == <<tensorField, maskArr, manifoldField, tensorBack, tensorDirect>>

diffVars == <<field, field2, coefA, coefB, axis, voxelSize, fwd, bwd, fwd2, fwdComb>>

----------------------------------------------------------------------------
(* Arithmetic *)

Abs(i) == IF i < 0 THEN -i ELSE i

Sgn(i) == IF i < 0 THEN -1 ELSE IF i = 0 THEN 0 ELSE 1

RECURSIVE GCD(_, _)
GCD(i, j) == IF j = 0 THEN i ELSE GCD(j, i % j)

Norm(num, den) ==
    LET g == GCD(Abs(num), Abs(den))
    IN  <<(Sgn(den) * num) \div g, Abs(den) \div g>>

Q(i) == <<i, 1>>

Zero == <<0, 1>>

NaN == <<0, 0>>

IsFinite(a) == a[2] # 0

Inf(s) == <<Sgn(s), 0>>

Neg(a) == <<-a[1], a[2]>>

Add(a, b) ==
    IF a = NaN \/ b = NaN THEN NaN
    ELSE IF ~IsFinite(a) /\ ~IsFinite(b) THEN (IF a = b THEN a ELSE NaN)
    ELSE IF ~IsFinite(a) THEN a
    ELSE IF ~IsFinite(b) THEN b
    ELSE Norm(a[1] * b[2] + b[1] * a[2], a[2] * b[2])

Sub(a, b) == Add(a, Neg(b))

Mul(a, b) ==
    IF a = NaN \/ b = NaN THEN NaN
    ELSE IF ~IsFinite(a) \/ ~IsFinite(b) THEN Inf(a[1] * b[1])
    ELSE Norm(a[1] * b[1], a[2] * b[2])

Div(a, b) ==
    IF a = NaN \/ b = NaN THEN NaN
    ELSE IF ~IsFinite(b) THEN (IF IsFinite(a) THEN Zero ELSE NaN)
    ELSE IF b[1] = 0 THEN Inf(a[1])
    ELSE IF ~IsFinite(a) THEN Inf(a[1] * b[1])
    ELSE Norm(a[1] * b[2], a[2] * b[1])

Sq(a) == Mul(a, a)

Positive(a) == a # NaN /\ a[1] > 0

----------------------------------------------------------------------------
(* ndarrays *)

RECURSIVE MaxOf(_)
MaxOf(s) == IF s = <<>> THEN 0
            ELSE LET r == MaxOf(Tail(s)) IN IF Head(s) > r THEN Head(s) ELSE r

Indices(shape) ==
    {idx \in [1..Len(shape) -> 0..MaxOf(shape)] :
        \A k \in 1..Len(shape) : idx[k] < shape[k]}

IsArray(r) == "shape" \in DOMAIN r

IsError(r) == "error" \in DOMAIN r

Raise(e) == [error |-> e]

Pending == [pending |-> TRUE]

IsPending(r) == "pending" \in DOMAIN r

ndim(A) == Len(A.shape)

----------------------------------------------------------------------------
(* Boolean-mask indexing, as numpy does it: a mask of m dimensions consumes *)
(* the first m axes of the array and must agree with their extents; the     *)
(* integer that follows indexes axis m.                                     *)

Prefix(idx, m) == SubSeq(idx, 1, m)

\* A[mask, c] raises IndexError for some c in 0..5
BoolIndexFails(A, mask) ==
    LET m == ndim(mask)
    IN  \/ m + 1 > ndim(A)
        \/ mask.shape # Prefix(A.shape, m)
        \/ A.shape[m + 1] < 6

\* BoolGet with the mask ignored: every element is selected
BoolGetAll(A, mask) ==
    LET m == ndim(mask)
        keys == {idx \in Indices(A.shape) : idx[m + 1] = 0}
    IN  [key \in keys |->
            [c \in 1..6 |-> A.data[[key EXCEPT ![m + 1] = c - 1]]]]

\* <<A[mask, 0], ..., A[mask, 5]>>, keyed by the index of channel 0 of each
\* selected element
BoolGet(A, mask) ==
    LET m == ndim(mask)
        keys == {idx \in Indices(A.shape) :
                    idx[m + 1] = 0 /\ mask.data[Prefix(idx, m)]}
    IN  [key \in keys |->
            [c \in 1..6 |-> A.data[[key EXCEPT ![m + 1] = c - 1]]]]

\* np.zeros(shape) followed by the six assignments  out[mask, c] = vals[.][c]
BoolSet(shape, mask, vals) ==
    LET m == ndim(mask)
    IN  [shape |-> shape,
         data  |-> [idx \in Indices(shape) |->
                     LET key == [idx EXCEPT ![m + 1] = 0]
                     IN  IF key \in DOMAIN vals /\ idx[m + 1] < 6
                         THEN vals[key][idx[m + 1] + 1]
                         ELSE Zero]]

\* XVoxel with X2 = Dyy - X1*X4, the square forgotten
XVoxelNoSquare(d) ==
    LET X1 == d[1]
        X4 == Div(d[2], d[1])
        X5 == Div(d[4], d[1])
        X2 == Sub(d[3], Mul(X1, X4))
        X6 == Div(Sub(d[5], Mul(Mul(X1, X4), X5)), X2)
        X3 == Sub(Sub(d[6], Mul(X1, Sq(X5))), Mul(X2, Sq(X6)))
    IN  <<X1, X2, X3, X4, X5, X6>>

\* lines 47-52, one selected voxel: d = <<Dxx, Dxy, Dyy, Dxz, Dyz, Dzz>>
XVoxel(d) ==
    LET X1 == d[1]
        X4 == Div(d[2], d[1])
        X5 == Div(d[4], d[1])
        X2 == Sub(d[3], Mul(X1, Sq(X4)))
        X6 == Div(Sub(d[5], Mul(Mul(X1, X4), X5)), X2)
        X3 == Sub(Sub(d[6], Mul(X1, Sq(X5))), Mul(X2, Sq(X6)))
    IN  <<X1, X2, X3, X4, X5, X6>>

\* DVoxel with Dyz = X1*X4*X5 + X6, the pivot X2 forgotten
DVoxelNoPivot(x) ==
    <<x[1],
      Mul(x[1], x[4]),
      Add(x[2], Mul(x[1], Sq(x[4]))),
      Mul(x[1], x[5]),
      Add(Mul(Mul(x[1], x[4]), x[5]), x[6]),
      Add(Add(x[3], Mul(x[1], Sq(x[5]))), Mul(x[2], Sq(x[6])))>>

\* lines 90-95, one selected voxel: x = <<X1, X2, X3, X4, X5, X6>>
DVoxel(x) ==
    LET X1 == x[1]
        X2 == x[2]
        X3 == x[3]
        X4 == x[4]
        X5 == x[5]
        X6 == x[6]
    IN  <<X1,
          Mul(X1, X4),
          Add(X2, Mul(X1, Sq(X4))),
          Mul(X1, X5),
          Add(Mul(Mul(X1, X4), X5), Mul(X2, X6)),
          Add(Add(X3, Mul(X1, Sq(X5))), Mul(X2, Sq(X6)))>>

x_manifold(D, mask) ==
    IF BoolIndexFails(D, mask) THEN Raise("IndexError")
    ELSE LET sel == BoolGet(D, mask)
         IN  BoolSet(D.shape, mask, [key \in DOMAIN sel |-> XVoxel(sel[key])])

d_manifold(X, mask) ==
    IF BoolIndexFails(X, mask) THEN Raise("IndexError")
    ELSE LET sel == BoolGet(X, mask)
         IN  BoolSet(X.shape, mask, [key \in DOMAIN sel |-> DVoxel(sel[key])])

----------------------------------------------------------------------------
(* Finite differences *)

\* forward_shift as np.arange(0, n): nothing is shifted
forward_shift_none(n) == [i \in 1..n |-> i - 1]

\* np.append(np.arange(1, n), n-1)
forward_shift(n) == [i \in 1..n |-> IF i < n THEN i ELSE n - 1]

\* np.append(0, np.arange(0, n-1))
backward_shift(n) == [i \in 1..n |-> IF i = 1 THEN 0 ELSE i - 2]

\* A indexed by the integer array sh along (1-based) axis k
Take(A, k, sh) ==
    IF \E i \in 1..Len(sh) : sh[i] >= A.shape[k] THEN Raise("IndexError")
    ELSE LET newshape == [A.shape EXCEPT ![k] = Len(sh)]
         IN  [shape |-> newshape,
              data  |-> [idx \in Indices(newshape) |->
                          A.data[[idx EXCEPT ![k] = sh[idx[k] + 1]]]]]

\* Xi[shift, ...], Xi[:, shift, :] and Xi[..., shift]
Shifted(Xi, dim, shift) ==
    IF dim = 0 THEN Take(Xi, 1, shift)
    ELSE IF dim = 1
         THEN (IF ndim(Xi) < 3 THEN Raise("IndexError") ELSE Take(Xi, 2, shift))
         ELSE Take(Xi, ndim(Xi), shift)

Broadcastable(s, t) ==
    \A k \in 1..Len(s) : s[k] = t[k] \/ s[k] = 1 \/ t[k] = 1

Clip(idx, shape) == [k \in 1..Len(idx) |-> IF shape[k] = 1 THEN 0 ELSE idx[k]]

\* A - B for arrays of equal rank, with numpy's broadcasting
ArrSub(A, B) ==
    IF ~Broadcastable(A.shape, B.shape) THEN Raise("ValueError")
    ELSE LET shape == [k \in 1..ndim(A) |->
                         IF A.shape[k] = 1 THEN B.shape[k] ELSE A.shape[k]]
         IN  [shape |-> shape,
              data  |-> [idx \in Indices(shape) |->
                          Sub(A.data[Clip(idx, A.shape)],
                              B.data[Clip(idx, B.shape)])]]

\* ArrDiv with the operands exchanged: s / A
ArrDivSwapped(A, s) ==
    [shape |-> A.shape, data |-> [idx \in Indices(A.shape) |-> Div(s, A.data[idx])]]

\* A / s for a scalar s
ArrDiv(A, s) ==
    [shape |-> A.shape, data |-> [idx \in Indices(A.shape) |-> Div(A.data[idx], s)]]

\* Xi.shape[dim], Python's negative indices included
ShapeFails(Xi, dim) == dim >= ndim(Xi) \/ dim < -ndim(Xi)

ShapeAt(Xi, dim) == Xi.shape[(IF dim < 0 THEN dim + ndim(Xi) ELSE dim) + 1]

\* the chain with its last branch written as a plain else
NoBranchTakenElse(dim) == FALSE

\* none of  if dim == 0 / elif dim == 1 / elif dim == 2  is taken
NoBranchTaken(dim) == dim \notin {0, 1, 2}

forward_diff(Xi, dim, vox_size) ==
    IF ShapeFails(Xi, dim) THEN Raise("IndexError")
    ELSE LET n     == ShapeAt(Xi, dim)
             shift == forward_shift(n)
         IN  IF NoBranchTaken(dim) THEN Raise("UnboundLocalError")
             ELSE LET sh == Shifted(Xi, dim, shift)
                  IN  IF IsError(sh) THEN sh
                      ELSE LET diff == ArrSub(sh, Xi)
                           IN  IF IsError(diff) THEN diff
                               ELSE ArrDiv(diff, vox_size)

backward_diff(Xi, dim, vox_size) ==
    IF ShapeFails(Xi, dim) THEN Raise("IndexError")
    ELSE LET n     == ShapeAt(Xi, dim)
             shift == backward_shift(n)
         IN  IF NoBranchTaken(dim) THEN Raise("UnboundLocalError")
             ELSE LET sh == Shifted(Xi, dim, shift)
                  IN  IF IsError(sh) THEN sh
                      ELSE IF dim = 2
                           THEN ArrSub(Xi, ArrDiv(sh, vox_size))
                           ELSE LET diff == ArrSub(Xi, sh)
                                IN  IF IsError(diff) THEN diff
                                    ELSE ArrDiv(diff, vox_size)

----------------------------------------------------------------------------
(* Inputs *)

NumVox == 2

MaxLen == 4

MaxVoxSize == 2

ArraysOver(shape, vals) ==
    {[shape |-> shape, data |-> d] : d \in [Indices(shape) -> vals]}

Tensor(a, b, c, d, e, f) == <<Q(a), Q(b), Q(c), Q(d), Q(e), Q(f)>>

\* one tensor per voxel, <<Dxx, Dxy, Dyy, Dxz, Dyz, Dzz>>
TensorSamples ==
    { Tensor(2, 2, 5, 4, 6, 14),      \* positive-definite, X = 2, 3, 14/3, 1, 2, 2/3
      Tensor(1, 0, 1, 0, 0, 1),       \* identity
      Tensor(3, -1, 2, 1, -2, 5),     \* positive-definite, negative shears
      Tensor(1, 2, 3, 3, 2, 1),       \* indefinite: X2 < 0
      Tensor(1, 1, 2, 1, 2, 2),       \* X3 = 0  
      Tensor(1, 1, 1, 0, 1, 1),       \* X2 = 0
      Tensor(0, 1, 1, 1, 1, 1),       \* Dxx = 0
      Tensor(0, 0, 0, 0, 0, 0),       \* zero tensor
      Tensor(-2, 1, 3, 0, 1, 1) }     \* Dxx < 0

\* fields of NumVox voxels, shape (NumVox, 6)
VoxelFields ==
    {[shape |-> <<NumVox, 6>>,
      data  |-> [idx \in Indices(<<NumVox, 6>>) |-> t[idx[1] + 1][idx[2] + 1]]] :
        t \in [1..NumVox -> TensorSamples]}

\* fields whose spatial shape is (1, 6), shape (1, 6, 6): the same tensor at
\* every voxel, scaled by the voxel's position
WideFields ==
    {[shape |-> <<1, 6, 6>>,
      data  |-> [idx \in Indices(<<1, 6, 6>>) |->
                    Mul(Q(idx[2] + 1), t[idx[3] + 1])]] : t \in TensorSamples}

TensorFields == VoxelFields \cup WideFields

ConstMasks(shape) ==
    {[shape |-> shape, data |-> [idx \in Indices(shape) |-> v]] : v \in BOOLEAN}

Masks ==
    ArraysOver(<<NumVox>>, BOOLEAN) \cup ConstMasks(<<NumVox + 1>>)
        \cup ArraysOver(<<1>>, BOOLEAN) \cup ConstMasks(<<1, 6>>)
        \cup ConstMasks(<<NumVox, 6>>)

LineVals == {Q(1), Q(2), Q(4), Q(7)}

BlockVals == {Q(-1), Q(2)}

LineShapes ==
    UNION {{<<len, 1, 1>>, <<1, len, 1>>, <<1, 1, len>>} : len \in 1..MaxLen}

\* 3-D volumes
Volumes ==
    UNION {ArraysOver(s, LineVals) : s \in LineShapes}
        \cup ArraysOver(<<2, 2, 2>>, BlockVals)

\* arrays that are not 3-dimensional
NonVolumes ==
    UNION {ArraysOver(s, BlockVals) :
             s \in {<<3>>, <<2, 2>>, <<1, 2, 2, 2>>, <<2, 1, 2, 1>>,
                    <<1, 1, 1, 2>>, <<1, 1, 2, 3>>}}

AxisInputs == {-4, -1, 0, 1, 2, 3}

VoxSizes == {Q(k) : k \in 1..MaxVoxSize} \cup {<<1, 2>>}

----------------------------------------------------------------------------
(* The coordinate change: a caller converts a tensor field, converts the   *)
(* result back, and converts the field itself as if it held coordinates.   *)

DiffIdle ==
    /\ field = Pending /\ field2 = Pending
    /\ coefA = Zero /\ coefB = Zero
    /\ axis = 0 /\ voxelSize = Q(1)
    /\ fwd = Pending /\ bwd = Pending /\ fwd2 = Pending /\ fwdComb = Pending

ManifoldIdle ==
    /\ tensorField = Pending /\ maskArr = Pending
    /\ manifoldField = Pending /\ tensorBack = Pending /\ tensorDirect = Pending

InitManifold ==
    /\ tensorField \in TensorFields
    /\ maskArr \in Masks
    /\ manifoldField = Pending
    /\ tensorBack = Pending
    /\ tensorDirect = Pending
    /\ DiffIdle

CallXManifold ==
    /\ manifoldField = Pending
    /\ manifoldField' = x_manifold(tensorField, maskArr)
    /\ UNCHANGED <<tensorField, maskArr, tensorBack, tensorDirect, diffVars>>

CallDManifoldBack ==
    /\ IsArray(manifoldField)
    /\ tensorBack = Pending
    /\ tensorBack' = d_manifold(manifoldField, maskArr)
    /\ UNCHANGED <<tensorField, maskArr, manifoldField, tensorDirect, diffVars>>

CallDManifold ==
    /\ tensorDirect = Pending
    /\ tensorDirect' = d_manifold(tensorField, maskArr)
    /\ UNCHANGED <<tensorField, maskArr, manifoldField, tensorBack, diffVars>>

NextManifold == CallXManifold \/ CallDManifoldBack \/ CallDManifold

SpecManifold == InitManifold /\ [][NextManifold]_vars

----------------------------------------------------------------------------
(* The differences of one array along one axis *)

InitDiff ==
    /\ field \in Volumes \cup NonVolumes
    /\ axis \in AxisInputs
    /\ voxelSize \in VoxSizes
    /\ field2 = Pending /\ coefA = Zero /\ coefB = Zero
    /\ fwd = Pending /\ bwd = Pending /\ fwd2 = Pending /\ fwdComb = Pending
    /\ ManifoldIdle

CallForwardDiff ==
    /\ fwd = Pending
    /\ fwd' = forward_diff(field, axis, voxelSize)
    /\ UNCHANGED <<field, field2, coefA, coefB, axis, voxelSize, bwd, fwd2,
                   fwdComb, manifoldVars>>

CallBackwardDiff ==
    /\ bwd = Pending
    /\ bwd' = backward_diff(field, axis, voxelSize)
    /\ UNCHANGED <<field, field2, coefA, coefB, axis, voxelSize, fwd, fwd2,
                   fwdComb, manifoldVars>>

NextDiff == CallForwardDiff \/ CallBackwardDiff

SpecDiff == InitDiff /\ [][NextDiff]_vars

----------------------------------------------------------------------------
(* The forward difference of two volumes and of a linear combination of    *)
(* them, the combination  a*f + b*g  being the caller's.                   *)

LinShapes == {<<3, 1, 1>>, <<1, 3, 1>>, <<1, 1, 3>>, <<2, 2, 1>>, <<1, 2, 2>>}

CoefPairs == {<<Q(2), Q(-1)>>, <<<<1, 2>>, Q(3)>>, <<Q(0), Q(1)>>}

\* a*F + b*G, elementwise
LinComb(a, F, b, G) ==
    [shape |-> F.shape,
     data  |-> [idx \in Indices(F.shape) |->
                  Add(Mul(a, F.data[idx]), Mul(b, G.data[idx]))]]

InitLin ==
    /\ \E s \in LinShapes :
          /\ field \in ArraysOver(s, BlockVals)
          /\ field2 \in ArraysOver(s, BlockVals)
    /\ \E c \in CoefPairs : coefA = c[1] /\ coefB = c[2]
    /\ axis \in {0, 1, 2}
    /\ voxelSize \in VoxSizes
    /\ fwd = Pending /\ bwd = Pending /\ fwd2 = Pending /\ fwdComb = Pending
    /\ ManifoldIdle

CallForwardDiffF ==
    /\ fwd = Pending
    /\ fwd' = forward_diff(field, axis, voxelSize)
    /\ UNCHANGED <<field, field2, coefA, coefB, axis, voxelSize, bwd, fwd2,
                   fwdComb, manifoldVars>>

CallForwardDiffG ==
    /\ fwd2 = Pending
    /\ fwd2' = forward_diff(field2, axis, voxelSize)
    /\ UNCHANGED <<field, field2, coefA, coefB, axis, voxelSize, fwd, bwd,
                   fwdComb, manifoldVars>>

CallForwardDiffComb ==
    /\ fwdComb = Pending
    /\ fwdComb' = forward_diff(LinComb(coefA, field, coefB, field2), axis, voxelSize)
    /\ UNCHANGED <<field, field2, coefA, coefB, axis, voxelSize, fwd, bwd,
                   fwd2, manifoldVars>>

NextLin == CallForwardDiffF \/ CallForwardDiffG \/ CallForwardDiffComb

SpecLin == InitLin /\ [][NextLin]_vars

----------------------------------------------------------------------------
(* Properties of the coordinate change *)

\* the mask has the field's leading (spatial) shape
MaskMatches(A, mask) == mask.shape = Prefix(A.shape, ndim(A) - 1)

\* the six channels of A at the voxel p
VoxelOf(A, p) == [c \in 1..6 |-> A.data[p \o <<c - 1>>]]

MaskedVoxels(mask) == {p \in Indices(mask.shape) : mask.data[p]}

\* leading principal minors of the tensor d = <<Dxx, Dxy, Dyy, Dxz, Dyz, Dzz>>
Minor2(d) == Sub(Mul(d[1], d[3]), Sq(d[2]))

Det3(d) ==
    Add(Sub(Mul(d[1], Sub(Mul(d[3], d[6]), Sq(d[5]))),
            Mul(d[2], Sub(Mul(d[2], d[6]), Mul(d[5], d[4])))),
        Mul(d[4], Sub(Mul(d[2], d[5]), Mul(d[3], d[4]))))

\* Dxx > 0 and the pivots X2 = Minor2/Dxx and X3 = Det3/Minor2 are > 0
PosDef(d) == Positive(d[1]) /\ Positive(Minor2(d)) /\ Positive(Det3(d))

\* C1: when every masked voxel of the tensor field is positive-definite,
\* d_manifold(x_manifold(D, mask), mask) equals D in all 6 channels at every
\* masked voxel.
C1_RoundTrip ==
    (IsArray(tensorBack) /\ MaskMatches(tensorField, maskArr)
        /\ \A p \in MaskedVoxels(maskArr) : PosDef(VoxelOf(tensorField, p)))
    => \A p \in MaskedVoxels(maskArr) :
          VoxelOf(tensorBack, p) = VoxelOf(tensorField, p)

\* a round trip of a field with two masked positive-definite voxels, one of
\* them with coordinates that are not integers
C1_Witness ==
    /\ IsArray(tensorBack) /\ MaskMatches(tensorField, maskArr)
    /\ Cardinality(MaskedVoxels(maskArr)) >= 2
    /\ \A p \in MaskedVoxels(maskArr) : PosDef(VoxelOf(tensorField, p))
    /\ \E p \in MaskedVoxels(maskArr) :
          \E c \in 1..6 : VoxelOf(manifoldField, p)[c][2] > 1

\* the output of one conversion is zero in all 6 channels at every voxel
\* the mask leaves out
ZeroOffMask(out, mask) ==
    IsArray(out) =>
        \A idx \in Indices(out.shape) :
            ~mask.data[Prefix(idx, ndim(mask))] => out.data[idx] = Zero

\* C2: the outputs of x_manifold and of d_manifold are exactly zero in all
\* 6 channels at every voxel where the mask is false, whatever the input
\* holds there.
C2_Masking ==
    /\ ZeroOffMask(manifoldField, maskArr)
    /\ ZeroOffMask(tensorBack, maskArr)
    /\ ZeroOffMask(tensorDirect, maskArr)

\* both conversions done on a field with a masked voxel and an unmasked
\* voxel whose six input channels are all nonzero
C2_Witness ==
    /\ IsArray(manifoldField) /\ IsArray(tensorDirect)
    /\ MaskMatches(tensorField, maskArr)
    /\ MaskedVoxels(maskArr) # {}
    /\ \E p \in Indices(maskArr.shape) :
          /\ ~maskArr.data[p]
          /\ \A c \in 1..6 : VoxelOf(tensorField, p)[c] # Zero

\* 3x3 matrices as functions on (1..3) x (1..3)
MatMul(A, B) ==
    [ij \in (1..3) \X (1..3) |->
        Add(Add(Mul(A[<<ij[1], 1>>], B[<<1, ij[2]>>]),
                Mul(A[<<ij[1], 2>>], B[<<2, ij[2]>>])),
            Mul(A[<<ij[1], 3>>], B[<<3, ij[2]>>]))]

Transpose(A) == [ij \in (1..3) \X (1..3) |-> A[<<ij[2], ij[1]>>]]

\* the symmetric matrix of the tensor d
TensorMatrix(d) ==
    [ij \in (1..3) \X (1..3) |->
        d[CASE ij \in {<<1, 1>>} -> 1
            [] ij \in {<<1, 2>>, <<2, 1>>} -> 2
            [] ij \in {<<2, 2>>} -> 3
            [] ij \in {<<1, 3>>, <<3, 1>>} -> 4
            [] ij \in {<<2, 3>>, <<3, 2>>} -> 5
            [] ij \in {<<3, 3>>} -> 6]]

\* the unit lower-triangular factor with multipliers X4, X5, X6
LowerOf(x) ==
    [ij \in (1..3) \X (1..3) |->
        CASE ij[1] = ij[2] -> Q(1)
          [] ij = <<2, 1>> -> x[4]
          [] ij = <<3, 1>> -> x[5]
          [] ij = <<3, 2>> -> x[6]
          [] OTHER -> Zero]

\* the diagonal factor with pivots X1, X2, X3
DiagOf(x) ==
    [ij \in (1..3) \X (1..3) |-> IF ij[1] = ij[2] THEN x[ij[1]] ELSE Zero]

\* x holds the LDL^T coordinates of the tensor d
IsLDLT(x, d) ==
    /\ MatMul(MatMul(LowerOf(x), DiagOf(x)), Transpose(LowerOf(x))) = TensorMatrix(d)
    /\ x[1] = d[1]
    /\ x[2] = Div(Minor2(d), d[1])
    /\ x[3] = Div(Det3(d), Minor2(d))
    /\ x[4] = Div(d[2], d[1])
    /\ x[5] = Div(d[4], d[1])
    /\ x[6] = Div(Sub(Mul(d[1], d[5]), Mul(d[2], d[4])), Minor2(d))

ExampleD == Tensor(2, 2, 5, 4, 6, 14)

ExampleX == <<Q(2), Q(3), <<14, 3>>, Q(1), Q(2), <<2, 3>>>>

\* C3: at every masked voxel whose pivots X1 and X2 are not zero, the
\* output channels (X1, X2, X3, X4, X5, X6) of x_manifold are the LDL^T
\* coordinates of the input channels (Dxx, Dxy, Dyy, Dxz, Dyz, Dzz): the
\* pivots X1, X2, X3 and the multipliers X4, X5, X6 of D = L diag(X1,X2,X3) L^T;
\* D = [2, 2, 5, 4, 6, 14] gives X = [2, 3, 14/3, 1, 2, 2/3].
C3_Iwasawa ==
    (IsArray(manifoldField) /\ MaskMatches(tensorField, maskArr))
    => \A p \in MaskedVoxels(maskArr) :
          LET d == VoxelOf(tensorField, p)
              x == VoxelOf(manifoldField, p)
          IN  /\ (d[1] # Zero /\ Minor2(d) # Zero) => IsLDLT(x, d)
              /\ d = ExampleD => x = ExampleX

\* x_manifold has converted a field that holds the example tensor at a
\* masked voxel and a tensor with a negative multiplier at another
C3_Witness ==
    /\ IsArray(manifoldField) /\ MaskMatches(tensorField, maskArr)
    /\ \E p \in MaskedVoxels(maskArr) :
          /\ VoxelOf(tensorField, p) = ExampleD
          /\ VoxelOf(manifoldField, p) = ExampleX
    /\ \E p \in MaskedVoxels(maskArr) :
          /\ PosDef(VoxelOf(tensorField, p))
          /\ VoxelOf(manifoldField, p)[6][1] < 0

----------------------------------------------------------------------------
(* Properties of the differences *)

Is3D(A) == ndim(A) = 3

ValidAxis(d) == d \in {0, 1, 2}

\* the index one step further (k = 1) or back (k = -1) along the axis d
Step(idx, d, k) == [idx EXCEPT ![d + 1] = idx[d + 1] + k]

\* the 3-D volume of shape (len, 1, 1) that holds the sequence v along axis 0
Line0(v) ==
    [shape |-> <<Len(v), 1, 1>>,
     data  |-> [idx \in Indices(<<Len(v), 1, 1>>) |-> Q(v[idx[1] + 1])]]

\* the volume holds one value at every voxel
IsConstant(A) == \A i, j \in Indices(A.shape) : A.data[i] = A.data[j]

AllZero(A) == \A idx \in Indices(A.shape) : A.data[idx] = Zero

\* backward_diff has returned for a 3-D volume and a valid axis
BackwardDone == Is3D(field) /\ ValidAxis(axis) /\ ~IsPending(bwd)

\* forward_diff has returned for a 3-D volume and a valid axis
ForwardDone == Is3D(field) /\ ValidAxis(axis) /\ ~IsPending(fwd)

\* C4: on every axis in {0,1,2} and at every index i in 1..N-1 along it,
\* the output of backward_diff equals (field[i] - field[i-1]) / voxelSize.
C4_BackwardNormalized ==
    BackwardDone =>
        /\ IsArray(bwd)
        /\ bwd.shape = field.shape
        /\ \A idx \in Indices(field.shape) :
              idx[axis + 1] >= 1 =>
                  bwd.data[idx] =
                      Div(Sub(field.data[idx], field.data[Step(idx, axis, -1)]),
                          voxelSize)

\* C5: on every axis in {0,1,2} and at every index i in 0..N-2 along it,
\* the output of forward_diff equals (field[i+1] - field[i]) / voxelSize,
\* taken along the line through the voxel; the output has the shape of
\* the field; [1,2,4,7] along axis 0 with voxelSize 1 gives [1,2,3,0].
C5_ForwardNormalized ==
    ForwardDone =>
        /\ IsArray(fwd)
        /\ fwd.shape = field.shape
        /\ \A idx \in Indices(field.shape) :
              idx[axis + 1] <= field.shape[axis + 1] - 2 =>
                  fwd.data[idx] =
                      Div(Sub(field.data[Step(idx, axis, 1)], field.data[idx]),
                          voxelSize)
        /\ (field = Line0(<<1, 2, 4, 7>>) /\ axis = 0 /\ voxelSize = Q(1))
              => fwd = Line0(<<1, 2, 3, 0>>)

\* forward_diff has returned [1,2,3,0] for [1,2,4,7] along axis 0
C5_Witness ==
    /\ ForwardDone
    /\ field = Line0(<<1, 2, 4, 7>>) /\ axis = 0 /\ voxelSize = Q(1)
    /\ fwd = Line0(<<1, 2, 3, 0>>)

\* C6: forward_diff is exactly 0 at the last index along the axis and
\* backward_diff is exactly 0 at the first index along the axis.
C6_BoundaryZero ==
    /\ ForwardDone =>
          /\ IsArray(fwd)
          /\ \A idx \in Indices(field.shape) :
                idx[axis + 1] = field.shape[axis + 1] - 1 => fwd.data[idx] = Zero
    /\ BackwardDone =>
          /\ IsArray(bwd)
          /\ \A idx \in Indices(field.shape) :
                idx[axis + 1] = 0 => bwd.data[idx] = Zero

\* C7: for a spatially constant volume both forward_diff and backward_diff
\* return zero at every voxel.
C7_ConstantField ==
    /\ (ForwardDone /\ IsConstant(field)) => (IsArray(fwd) /\ AllZero(fwd))
    /\ (BackwardDone /\ IsConstant(field)) => (IsArray(bwd) /\ AllZero(bwd))

\* C8: for an axis outside {0,1,2}, forward_diff and backward_diff end in an
\* error and return no array.
C8_InvalidAxis ==
    ~ValidAxis(axis) =>
        /\ ~IsPending(fwd) => IsError(fwd)
        /\ ~IsPending(bwd) => IsError(bwd)

\* both differences of a 3-D volume have been asked for along axis -1, which
\* Python accepts as an index into the shape
C8_Witness ==
    /\ Is3D(field) /\ axis = -1
    /\ IsError(fwd) /\ IsError(bwd)
    /\ fwd.error = "UnboundLocalError"

\* C9: x_manifold and d_manifold given a mask whose shape is not the
\* spatial shape of the field, and forward_diff and backward_diff given an
\* array that is not 3-dimensional with an axis in {0,1,2}, end in an error
\* and return no array.
C9_ShapeMismatch ==
    /\ (~IsPending(tensorField) /\ ~MaskMatches(tensorField, maskArr)) =>
          /\ ~IsPending(manifoldField) => IsError(manifoldField)
          /\ ~IsPending(tensorDirect) => IsError(tensorDirect)
    /\ (~IsPending(field) /\ ~Is3D(field) /\ ValidAxis(axis)) =>
          /\ ~IsPending(fwd) => IsError(fwd)
          /\ ~IsPending(bwd) => IsError(bwd)

\* C10: forward_diff(a*f + b*g, axis, h) equals
\* a*forward_diff(f, axis, h) + b*forward_diff(g, axis, h) at every voxel.
C10_Linearity ==
    (~IsPending(fwd) /\ ~IsPending(fwd2) /\ ~IsPending(fwdComb)) =>
        /\ IsArray(fwd) /\ IsArray(fwd2) /\ IsArray(fwdComb)
        /\ fwdComb = LinComb(coefA, fwd, coefB, fwd2)

\* the three differences are done for two different volumes with nonzero
\* differences and nonzero coefficients
C10_Witness ==
    /\ IsArray(fwd) /\ IsArray(fwd2) /\ IsArray(fwdComb)
    /\ coefA # Zero /\ coefB # Zero
    /\ field # field2
    /\ ~AllZero(fwd) /\ ~AllZero(fwd2) /\ ~AllZero(fwdComb)

====
